---- MODULE Spec2Model ----
(***************************************************************************)
(* Model of src/server.py: a mock HTTP endpoint served by a                *)
(* single-threaded socketserver.TCPServer.  One handler at a time runs     *)
(* CustomHandler.do_GET or CustomHandler.do_POST to completion; do_POST    *)
(* derives a status code and a delay from the JSON "method" field, sleeps, *)
(* writes the response and prints one diagnostic line.                     *)
(*                                                                         *)
(* Text is a sequence of one-character strings; durations are integers in  *)
(* milliseconds (c / 1000 seconds is exactly c milliseconds).              *)
(***************************************************************************)
EXTENDS Integers, Sequences, FiniteSets, TLC

\* ------------------------------------------------------------------ bounds

\* Longest generated suffix after "eth_" (4 digits are needed for N >= 1000).
MaxLen == 4

\* Number of requests sent to the server in one behaviour.
MaxReq == 3

\* ------------------------------------------------------- program constants

\* METHOD_PREFIX = "eth_"
METHOD_PREFIX == <<"e", "t", "h", "_">>

\* The literal compared against at line 43.
SLOW_METHOD == METHOD_PREFIX \o <<"s", "l", "o", "w", "M", "e", "t", "h", "o", "d">>

\* c = 200 in the except branch, and c = 200 when the suffix is a delay.
DEFAULT_CODE == 200

\* if c >= 1000
DELAY_THRESHOLD == 1000

\* c / 1000 : milliseconds per second
MS_PER_SEC == 1000

\* time.sleep(0.25), in milliseconds
SLOW_SLEEP_MS == 250

\* do_GET always answers 200
GET_CODE == 200

\* ----------------------------------------------------------------- state

VARIABLES
    PORT,       \* the module-level PORT
    serving,    \* serve_forever() is running
    arrived,    \* every connection made so far, in order; index = connection id
    accepted,   \* connections taken from the listen queue; the handler runs
                \* connection `accepted` while pc # "idle"
    pc,         \* where the single handler stands
    post_data,  \* locals of do_POST
    m,
    c,
    secs,
    conn,       \* per connection: what was written to it, and how long its
                \* handler slept
    sent,       \* connection ids in the order their status lines were written
    stdout      \* the lines printed

vars == <<PORT, serving, arrived, accepted, pc, post_data, m, c, secs, conn, sent, stdout>>

locals == <<post_data, m, c, secs>>

\* ------------------------------------------------------------ text helpers

DigitChars == <<"0", "1", "2", "3", "4", "5", "6", "7", "8", "9">>

IsDigit(ch) == \E i \in 1..10 : DigitChars[i] = ch

DigitVal(ch) == (CHOOSE i \in 1..10 : DigitChars[i] = ch) - 1

\* str.isspace() on the characters the model generates
IsSpace(ch) == ch = " "

\* str.startswith
StartsWith(s, p) ==
    /\ Len(s) >= Len(p)
    /\ SubSeq(s, 1, Len(p)) = p

\* m[len(METHOD_PREFIX):]
DropPrefix(s, n) == SubSeq(s, n + 1, Len(s))

RECURSIVE LStrip(_)
LStrip(s) ==
    IF s # <<>> /\ IsSpace(Head(s)) THEN LStrip(Tail(s)) ELSE s

RECURSIVE RStrip(_)
RStrip(s) ==
    IF s # <<>> /\ IsSpace(s[Len(s)]) THEN RStrip(SubSeq(s, 1, Len(s) - 1)) ELSE s

\* The scan int() makes over the text after the sign: digits, with single
\* underscores allowed only between two digits.  Returns the value, or -1
\* where int() raises ValueError.  prev is "start", "digit" or "us".
RECURSIVE ScanDigits(_, _, _)
ScanDigits(s, acc, prev) ==
    IF s = <<>>
    THEN IF prev = "digit" THEN acc ELSE -1
    ELSE IF IsDigit(Head(s))
         THEN ScanDigits(Tail(s), acc * 10 + DigitVal(Head(s)), "digit")
         ELSE IF Head(s) = "_" /\ prev = "digit"
              THEN ScanDigits(Tail(s), acc, "us")
              ELSE -1

\* int(suffix) for a str argument, base 10: surrounding whitespace is
\* stripped, one optional sign, then the digit scan.  ok = FALSE is ValueError.
PyInt(s) ==
    LET t == RStrip(LStrip(s))
        signed == t # <<>> /\ t[1] \in {"+", "-"}
        digits == IF signed THEN Tail(t) ELSE t
        mag == ScanDigits(digits, 0, "start")
    IN  IF mag < 0
        THEN [ok |-> FALSE, val |-> 0]
        ELSE [ok |-> TRUE, val |-> IF signed /\ t[1] = "-" THEN 0 - mag ELSE mag]

\* str(n) for a natural number
RECURSIVE NatToStr(_)
NatToStr(n) ==
    IF n < 10
    THEN <<DigitChars[n + 1]>>
    ELSE NatToStr(n \div 10) \o <<DigitChars[(n % 10) + 1]>>

\* The fraction digits repr() prints for k thousandths (0 <= k < 1000):
\* three digits with the trailing zeros dropped, at least one digit.
FracDigits(k) ==
    IF k = 0 THEN <<"0">>
    ELSE IF k % 100 = 0 THEN NatToStr(k \div 100)
    ELSE IF k % 10 = 0
         THEN <<DigitChars[(k \div 100) + 1]>> \o NatToStr((k \div 10) % 10)
         ELSE <<DigitChars[(k \div 100) + 1], DigitChars[((k \div 10) % 10) + 1],
                DigitChars[(k % 10) + 1]>>

\* ------------------------------------------------- values of the local secs

\* secs is the int 0 (line 36) or the float c / 1000 (line 39).
SecsInt(n) == [float |-> FALSE, ms |-> n * MS_PER_SEC]

SecsFloat(ms) == [float |-> TRUE, ms |-> ms]

\* f"{secs}": str() of the int, repr() of the float
FormatSecs(v) ==
    IF v.float
    THEN NatToStr(v.ms \div MS_PER_SEC) \o <<".">> \o FracDigits(v.ms % MS_PER_SEC)
    ELSE NatToStr(v.ms \div MS_PER_SEC)

\* ------------------------------------------------------ the derivation

\* Mutant of MethodCode: the prefix test is forgotten and the first four
\* characters are dropped whatever they are.
MethodCodeNoPrefixTest(name) ==
    LET r == PyInt(DropPrefix(name, Len(METHOD_PREFIX)))
    IN  IF r.ok THEN r.val ELSE DEFAULT_CODE

\* Lines 28-34: the code the try block leaves in c.  A method without the
\* prefix raises ValueError itself; int() raises it for a malformed suffix.
MethodCode(name) ==
    IF ~StartsWith(name, METHOD_PREFIX)
    THEN DEFAULT_CODE
    ELSE LET r == PyInt(DropPrefix(name, Len(METHOD_PREFIX)))
         IN  IF r.ok THEN r.val ELSE DEFAULT_CODE

\* Lines 36-39: secs = 0, replaced by c / 1000 when c >= 1000.
DelayOf(code) ==
    IF code >= DELAY_THRESHOLD THEN SecsFloat(code) ELSE SecsInt(0)

\* Mutant of StatusOf: the comparison is strict.
StatusOfStrict(code) ==
    IF code > DELAY_THRESHOLD THEN DEFAULT_CODE ELSE code

\* Lines 37 and 40: c = 200 when the suffix was a delay.
StatusOf(code) ==
    IF code >= DELAY_THRESHOLD THEN DEFAULT_CODE ELSE code

\* Mutant of SlowSleepOf: a prefix match instead of equality.
SlowSleepOfPrefix(name) ==
    IF StartsWith(name, SLOW_METHOD) THEN SLOW_SLEEP_MS ELSE 0

\* Lines 43-44: the extra sleep, in milliseconds.
SlowSleepOf(name) ==
    IF name = SLOW_METHOD THEN SLOW_SLEEP_MS ELSE 0

\* Mutant of ResponseBody: a count of the requests accepted so far is
\* embedded where the port belongs.
ResponseBodyCounting(port, name, delay) ==
    <<"<html><body><h1>POST request received: port=", NatToStr(accepted),
      ", method=", name, ", secs=", FormatSecs(delay), "</h1></body></html>">>

\* Line 55: the f-string, piece by piece.
ResponseBody(port, name, delay) ==
    <<"<html><body><h1>POST request received: port=", NatToStr(port),
      ", method=", name, ", secs=", FormatSecs(delay), "</h1></body></html>">>

\* Line 18.
GET_BODY == <<"<html><body><h1>GET request received</h1></body></html>">>

\* Lines 16 and 48.
HTML_HEADER == <<"Content-type", "text/html">>

\* ------------------------------------------------------------- requests

JStr(s) == [type |-> "string", text |-> s]

\* A "method" value that is not a string, as in {"method": 5}.
JNum == [type |-> "number", text |-> <<"5">>]

NoValue == [type |-> "none", text |-> <<>>]

\* What json.loads(...)["method"] makes of a body:
\*   "invalid"    the text is not JSON (or not UTF-8)         ValueError
\*   "not_object" JSON, but a list, string or number          TypeError
\*   "no_method"  an object without the "method" key          KeyError
\*   "object"     an object, method holds the field's value
Body(json, method) == [json |-> json, method |-> method]

Post(clen, body) == [verb |-> "POST", clen |-> clen, body |-> body]

GetRequest == [verb |-> "GET", clen |-> "absent", body |-> Body("invalid", NoValue)]

MalformedPosts ==
    { Post("absent", Body("object", JStr(METHOD_PREFIX \o <<"4", "0", "4">>))),
      Post("ok", Body("invalid", NoValue)),
      Post("ok", Body("not_object", NoValue)),
      Post("ok", Body("no_method", NoValue)),
      Post("ok", Body("object", JNum)) }

MethodPost(name) == Post("ok", Body("object", JStr(name)))

SuffixChars == {"0", "1", "9", "-", "+", "_", "x"}

RECURSIVE SeqsUpTo(_, _)
SeqsUpTo(S, n) ==
    IF n = 0
    THEN {<<>>}
    ELSE LET shorter == SeqsUpTo(S, n - 1)
         IN  shorter \cup {Append(s, ch) : s \in shorter, ch \in S}

Txt_foobar == <<"f", "o", "o", "b", "a", "r">>

\* Method names outside the generated "eth_" + suffix family.
OtherMethods ==
    { <<>>, Txt_foobar, <<"e", "t", "h">>, <<"4", "0", "4">>,
      <<"E", "T", "H", "_", "4", "0", "4">>,
      <<"x">> \o METHOD_PREFIX \o <<"4", "0", "4">>,
      SLOW_METHOD, SLOW_METHOD \o <<"X">>,
      SubSeq(SLOW_METHOD, 1, Len(SLOW_METHOD) - 1),
      DropPrefix(SLOW_METHOD, Len(METHOD_PREFIX)),
      METHOD_PREFIX \o <<"s", "l", "o", "w", "m", "e", "t", "h", "o", "d">>,
      METHOD_PREFIX \o <<" ", "4", "0", "4">>,
      METHOD_PREFIX \o <<"4", "0", "4", " ">>,
      METHOD_PREFIX \o <<"4", " ", "4">>,
      METHOD_PREFIX \o <<"-", " ", "4">>,
      METHOD_PREFIX \o <<" ">> }

Methods ==
    {METHOD_PREFIX \o s : s \in SeqsUpTo(SuffixChars, MaxLen)} \cup OtherMethods

\* The requests sent to the running server.
ServerMethods ==
    { METHOD_PREFIX \o <<"4", "0", "4">>,
      METHOD_PREFIX \o <<"1", "5", "0", "0">>,
      SLOW_METHOD,
      Txt_foobar }

ServerRequests ==
    {GetRequest} \cup MalformedPosts \cup {MethodPost(n) : n \in ServerMethods}

\* The requests sent where the handler's timing and progress are checked.
TimedRequests ==
    { GetRequest,
      Post("absent", Body("object", JStr(METHOD_PREFIX \o <<"4", "0", "4">>))),
      Post("ok", Body("no_method", NoValue)),
      Post("ok", Body("object", JNum)),
      MethodPost(METHOD_PREFIX \o <<"1", "5", "0", "0">>),
      MethodPost(SLOW_METHOD),
      MethodPost(Txt_foobar) }

\* sys.argv[1]
Ports == {80, 4444}

\* ------------------------------------------------- connections and locals

NewConn == [state |-> "queued", status |-> <<>>, headers |-> <<>>, body |-> <<>>, slept |-> 0]

NoData == Body("invalid", NoValue)

ResetLocals ==
    /\ post_data' = NoData
    /\ m' = NoValue
    /\ c' = 0
    /\ secs' = SecsInt(0)

req == arrived[accepted]

\* --------------------------------------------------------------- actions

\* with socketserver.TCPServer(("", PORT), CustomHandler): print; serve_forever
InitCommon ==
    /\ PORT \in Ports
    /\ serving = TRUE
    /\ accepted = 0
    /\ pc = "idle"
    /\ post_data = NoData
    /\ m = NoValue
    /\ c = 0
    /\ secs = SecsInt(0)
    /\ sent = <<>>
    /\ stdout = << <<"Serving on port", NatToStr(PORT)>> >>

Init ==
    /\ InitCommon
    /\ arrived = <<>>
    /\ conn = <<>>

\* A client connects and sends a request; the listen queue holds it until
\* the server accepts it.
ArriveFrom(R) ==
    /\ Len(arrived) < MaxReq
    /\ \E r \in R : arrived' = Append(arrived, r)
    /\ conn' = Append(conn, NewConn)
    /\ UNCHANGED <<PORT, serving, accepted, pc, locals, sent, stdout>>

Arrive == ArriveFrom(ServerRequests)

ArriveTimed == ArriveFrom(TimedRequests)

\* Mutant of Accept: the next connection is taken without waiting for the
\* running handler to return.
AcceptWhileBusy ==
    /\ serving
    /\ accepted < Len(arrived)
    /\ accepted' = accepted + 1
    /\ conn' = [conn EXCEPT ![accepted + 1].state = "handling"]
    /\ pc' = IF arrived[accepted + 1].verb = "GET" THEN "get" ELSE "read"
    /\ UNCHANGED <<PORT, serving, arrived, locals, sent, stdout>>

\* serve_forever takes the oldest queued connection once the previous
\* handler has returned, and the request line selects do_GET or do_POST.
Accept ==
    /\ serving
    /\ pc = "idle"
    /\ accepted < Len(arrived)
    /\ accepted' = accepted + 1
    /\ conn' = [conn EXCEPT ![accepted + 1].state = "handling"]
    /\ pc' = IF arrived[accepted + 1].verb = "GET" THEN "get" ELSE "read"
    /\ UNCHANGED <<PORT, serving, arrived, locals, sent, stdout>>

\* Mutant of ServingAfterError: the exception ends serve_forever.
ServingAfterErrorStops == FALSE

\* Whether serve_forever goes on after a handler raised: socketserver
\* catches the exception, reports it and closes that connection only.
ServingAfterError == TRUE

\* An uncaught exception in the handler: nothing more is written.
Abort ==
    /\ conn' = [conn EXCEPT ![accepted].state = "aborted"]
    /\ serving' = ServingAfterError
    /\ pc' = "idle"
    /\ ResetLocals
    /\ UNCHANGED <<PORT, arrived, accepted, sent, stdout>>

\* Lines 13-19.
DoGet ==
    /\ pc = "get"
    /\ conn' = [conn EXCEPT ![accepted] =
                   [@ EXCEPT !.state = "answered", !.status = <<GET_CODE>>,
                             !.headers = <<HTML_HEADER>>, !.body = <<GET_BODY>>]]
    /\ sent' = Append(sent, accepted)
    /\ pc' = "idle"
    /\ UNCHANGED <<PORT, serving, arrived, accepted, locals, stdout>>

\* Lines 24-25 with a usable Content-Length.
ReadBody ==
    /\ pc = "read"
    /\ req.clen = "ok"
    /\ post_data' = req.body
    /\ pc' = "loads"
    /\ UNCHANGED <<PORT, serving, arrived, accepted, m, c, secs, conn, sent, stdout>>

\* Line 24 without one: int(None) raises TypeError.
ReadBodyFails ==
    /\ pc = "read"
    /\ req.clen # "ok"
    /\ Abort

\* Line 27 on a JSON object that has the key.
LoadMethod ==
    /\ pc = "loads"
    /\ post_data.json = "object"
    /\ m' = post_data.method
    /\ pc' = "derive"
    /\ UNCHANGED <<PORT, serving, arrived, accepted, post_data, c, secs, conn, sent, stdout>>

\* Mutant of LoadMethodFails: the failure is caught and answered with 400.
LoadMethodFailsAnswers ==
    /\ pc = "loads"
    /\ post_data.json # "object"
    /\ conn' = [conn EXCEPT ![accepted] =
                   [@ EXCEPT !.state = "answered", !.status = <<400>>,
                             !.headers = <<HTML_HEADER>>]]
    /\ sent' = Append(sent, accepted)
    /\ pc' = "idle"
    /\ ResetLocals
    /\ UNCHANGED <<PORT, serving, arrived, accepted, stdout>>

\* Line 27 raising: JSONDecodeError, TypeError or KeyError, none caught.
LoadMethodFails ==
    /\ pc = "loads"
    /\ post_data.json # "object"
    /\ Abort

\* Lines 28-34.
Derive ==
    /\ pc = "derive"
    /\ m.type = "string"
    /\ c' = MethodCode(m.text)
    /\ pc' = "delay"
    /\ UNCHANGED <<PORT, serving, arrived, accepted, post_data, m, secs, conn, sent, stdout>>

\* Line 29 on a method that is no str: AttributeError is not a ValueError.
DeriveFails ==
    /\ pc = "derive"
    /\ m.type # "string"
    /\ Abort

\* Lines 36-40; the handler then enters time.sleep(secs).
ComputeDelay ==
    /\ pc = "delay"
    /\ secs' = DelayOf(c)
    /\ c' = StatusOf(c)
    /\ pc' = "sleep"
    /\ UNCHANGED <<PORT, serving, arrived, accepted, post_data, m, conn, sent, stdout>>

\* Mutant of Sleep: the sleep is cut short and returns at once.
SleepCutShort ==
    /\ pc = "sleep"
    /\ pc' = "slow"
    /\ UNCHANGED <<PORT, serving, arrived, accepted, locals, conn, sent, stdout>>

\* Line 41: time.sleep(secs) returns after secs.
Sleep ==
    /\ pc = "sleep"
    /\ conn' = [conn EXCEPT ![accepted].slept = @ + secs.ms]
    /\ pc' = "slow"
    /\ UNCHANGED <<PORT, serving, arrived, accepted, locals, sent, stdout>>

\* Lines 43-44.
SlowSleep ==
    /\ pc = "slow"
    /\ conn' = [conn EXCEPT ![accepted].slept = @ + SlowSleepOf(m.text)]
    /\ pc' = "respond"
    /\ UNCHANGED <<PORT, serving, arrived, accepted, locals, sent, stdout>>

\* Lines 47-49: end_headers flushes the status line and the header.
SendHeaders ==
    /\ pc = "respond"
    /\ conn' = [conn EXCEPT ![accepted] =
                   [@ EXCEPT !.status = <<c>>, !.headers = <<HTML_HEADER>>]]
    /\ sent' = Append(sent, accepted)
    /\ pc' = "print"
    /\ UNCHANGED <<PORT, serving, arrived, accepted, locals, stdout>>

\* Mutant of LogPost: the parsed method is printed, not the raw body.
LogPostMethod ==
    /\ pc = "print"
    /\ stdout' = Append(stdout, <<"Received POST data:", m>>)
    /\ pc' = "write"
    /\ UNCHANGED <<PORT, serving, arrived, accepted, locals, conn, sent>>

\* Line 52.
LogPost ==
    /\ pc = "print"
    /\ stdout' = Append(stdout, <<"Received POST data:", post_data>>)
    /\ pc' = "write"
    /\ UNCHANGED <<PORT, serving, arrived, accepted, locals, conn, sent>>

\* Lines 55-56, and the handler returns.
WriteBody ==
    /\ pc = "write"
    /\ conn' = [conn EXCEPT ![accepted] =
                   [@ EXCEPT !.state = "answered",
                             !.body = <<ResponseBody(PORT, m.text, secs)>>]]
    /\ pc' = "idle"
    /\ ResetLocals
    /\ UNCHANGED <<PORT, serving, arrived, accepted, sent, stdout>>

\* The running do_POST handler's next line.
PostStep ==
    \/ ReadBody
    \/ ReadBodyFails
    \/ LoadMethod
    \/ LoadMethodFails
    \/ Derive
    \/ DeriveFails
    \/ ComputeDelay
    \/ Sleep
    \/ SlowSleep
    \/ SendHeaders
    \/ LogPost
    \/ WriteBody

\* One step of the server: accepting, or the running handler's next line.
ServerStep == Accept \/ DoGet \/ PostStep

Next == Arrive \/ ServerStep

Spec == Init /\ [][Next]_vars

\* time.sleep returns and every line of the handler runs to its end, so the
\* server's next step is always taken eventually.
FairNext == ArriveTimed \/ ServerStep

FairSpec == Init /\ [][FairNext]_vars /\ WF_vars(ServerStep)

\* One POST, drawn from the whole family of method names, handled by a
\* freshly started server.
DeriveRequests == MalformedPosts \cup {MethodPost(n) : n \in Methods}

DeriveInit ==
    /\ InitCommon
    /\ \E r \in DeriveRequests : arrived = <<r>>
    /\ conn = <<NewConn>>

DeriveNext == Accept \/ PostStep

DeriveSpec == DeriveInit /\ [][DeriveNext]_vars

\* ------------------------------------------------ vocabulary of the claims
\* The derivation as the specification words it, written without the
\* operators above: the claims below compare the handler against it.

RefDigits == {"0", "1", "2", "3", "4", "5", "6", "7", "8", "9"}

RefDigitVal(ch) ==
    CASE ch = "0" -> 0 [] ch = "1" -> 1 [] ch = "2" -> 2 [] ch = "3" -> 3
      [] ch = "4" -> 4 [] ch = "5" -> 5 [] ch = "6" -> 6 [] ch = "7" -> 7
      [] ch = "8" -> 8 [] ch = "9" -> 9

\* The value of a run of decimal digits.
RECURSIVE DecimalValue(_)
DecimalValue(d) ==
    IF d = <<>> THEN 0
    ELSE 10 * DecimalValue(SubSeq(d, 1, Len(d) - 1)) + RefDigitVal(d[Len(d)])

HasEthPrefix(name) ==
    /\ Len(name) >= 4
    /\ name[1] = "e" /\ name[2] = "t" /\ name[3] = "h" /\ name[4] = "_"

SuffixOf(name) == [k \in 1..(Len(name) - 4) |-> name[k + 4]]

\* An optional sign followed by one or more digits.
PlainInteger(s) ==
    LET d == IF s # <<>> /\ s[1] \in {"+", "-"} THEN Tail(s) ELSE s
    IN  /\ d # <<>>
        /\ \A k \in 1..Len(d) : d[k] \in RefDigits

\* The texts that parse as a base-10 integer: blanks around an optional sign
\* and digits, the digits possibly grouped by single underscores.
IntegerText(s) ==
    \E a \in 0..Len(s), b \in 0..Len(s) :
        /\ a < b
        /\ \A k \in 1..a : s[k] = " "
        /\ \A k \in (b + 1)..Len(s) : s[k] = " "
        /\ LET core == SubSeq(s, a + 1, b)
               d == IF core[1] \in {"+", "-"} THEN Tail(core) ELSE core
           IN  /\ d # <<>>
               /\ d[1] \in RefDigits
               /\ d[Len(d)] \in RefDigits
               /\ \A k \in 1..Len(d) : d[k] \in RefDigits \cup {"_"}
               /\ \A k \in 1..(Len(d) - 1) : ~(d[k] = "_" /\ d[k + 1] = "_")

IntegerValue(s) ==
    LET mag == DecimalValue(SelectSeq(s, LAMBDA ch : ch \in RefDigits))
    IN  IF \E k \in 1..Len(s) : s[k] = "-" THEN 0 - mag ELSE mag

RefIsSlowMethod(name) ==
    name = <<"e", "t", "h", "_", "s", "l", "o", "w", "M", "e", "t", "h", "o", "d">>

RefCode(name) ==
    IF HasEthPrefix(name) /\ IntegerText(SuffixOf(name))
    THEN IntegerValue(SuffixOf(name))
    ELSE 200

RefStatus(name) == IF RefCode(name) >= 1000 THEN 200 ELSE RefCode(name)

RefDelayMs(name) == IF RefCode(name) >= 1000 THEN RefCode(name) ELSE 0

RefExtraMs(name) == IF RefIsSlowMethod(name) THEN 250 ELSE 0

\* The milliseconds a decimal text such as "1.5" or "0" stands for.
SecsTextMs(t) ==
    LET dots == {k \in 1..Len(t) : t[k] = "."}
    IN  IF dots = {}
        THEN 1000 * DecimalValue(t)
        ELSE LET k == CHOOSE x \in dots : TRUE
                 frac == SubSeq(t, k + 1, Len(t))
                 pad == IF Len(frac) = 1 THEN 100 ELSE IF Len(frac) = 2 THEN 10 ELSE 1
             IN  1000 * DecimalValue(SubSeq(t, 1, k - 1)) + pad * DecimalValue(frac)

Conns == DOMAIN conn

IsPost(i) == arrived[i].verb = "POST"

\* A POST that reaches the derivation: readable length, a JSON object whose
\* "method" is a string.
WellFormed(i) ==
    /\ IsPost(i)
    /\ arrived[i].clen = "ok"
    /\ arrived[i].body.json = "object"
    /\ arrived[i].body.method.type = "string"

NameOf(i) == arrived[i].body.method.text

Finished(i) == conn[i].state \in {"answered", "aborted"}

Wrote(i) == conn[i].status # <<>> \/ conn[i].headers # <<>> \/ conn[i].body # <<>>

\* The handler of connection i has computed secs and c (lines 36-40 done).
Derived(i) == i = accepted /\ pc \in {"sleep", "slow", "respond", "print", "write"}

\* ---------------------------------------------------------------- claims

\* C1: a POST whose method is eth_<N>, N an optionally signed base-10
\* integer, is answered, never aborted; for N >= 1000 the status is 200 and
\* the handler sleeps N milliseconds, for N < 1000 (zero and negative N
\* included) the status is N itself and the derived delay is 0.
C1_NumericSuffix ==
    \A i \in Conns :
        (WellFormed(i) /\ HasEthPrefix(NameOf(i)) /\ PlainInteger(SuffixOf(NameOf(i)))) =>
            LET N == IntegerValue(SuffixOf(NameOf(i)))
            IN  /\ conn[i].state # "aborted"
                /\ Derived(i) =>
                      /\ secs.ms = (IF N >= 1000 THEN N ELSE 0)
                      /\ c = (IF N >= 1000 THEN 200 ELSE N)
                /\ conn[i].status # <<>> =>
                      /\ conn[i].status = <<IF N >= 1000 THEN 200 ELSE N>>
                      /\ conn[i].slept = (IF N >= 1000 THEN N ELSE 0)

\* Reached: eth_1000, the smallest delay, answered 200 after one second.
C1_Witness ==
    \E i \in Conns :
        /\ WellFormed(i)
        /\ NameOf(i) = <<"e", "t", "h", "_", "1", "0", "0", "0">>
        /\ conn[i].state = "answered"
        /\ conn[i].status = <<200>>
        /\ conn[i].slept = 1000

\* C2: a POST whose method lacks the eth_ prefix, or whose suffix is no
\* base-10 integer (the empty suffix included), is never aborted, gets
\* status 200, and the delay derived from its suffix is 0.
C2_DefaultOutcome ==
    \A i \in Conns :
        (WellFormed(i) /\ ~(HasEthPrefix(NameOf(i)) /\ IntegerText(SuffixOf(NameOf(i))))) =>
            /\ conn[i].state # "aborted"
            /\ Derived(i) => (secs.ms = 0 /\ c = 200)
            /\ conn[i].status # <<>> => conn[i].status = <<200>>
            /\ conn[i].body # <<>> => SecsTextMs(conn[i].body[1][6]) = 0

\* Reached: "eth_" with the empty suffix, answered 200 without sleeping.
C2_Witness ==
    \E i \in Conns :
        /\ WellFormed(i)
        /\ NameOf(i) = <<"e", "t", "h", "_">>
        /\ conn[i].state = "answered"
        /\ conn[i].status = <<200>>
        /\ conn[i].slept = 0

\* C3: eth_slowMethod is answered 200 after 0.25 s in all, the fixed
\* quarter second added to its derived delay of 0; no other method gets the
\* extra quarter second, its total delay is the delay derived from its
\* suffix.
C3_SlowMethodOnly ==
    \A i \in Conns :
        WellFormed(i) =>
            /\ (i = accepted /\ pc \in {"respond", "print", "write"}) =>
                  conn[i].slept = secs.ms + (IF RefIsSlowMethod(NameOf(i)) THEN 250 ELSE 0)
            /\ conn[i].status # <<>> =>
                  IF RefIsSlowMethod(NameOf(i))
                  THEN conn[i].status = <<200>> /\ conn[i].slept = 250
                  ELSE conn[i].slept = RefDelayMs(NameOf(i))

\* Reached: eth_slowMethod answered after a quarter of a second.
C3_Witness ==
    \E i \in Conns :
        /\ WellFormed(i)
        /\ RefIsSlowMethod(NameOf(i))
        /\ conn[i].state = "answered"
        /\ conn[i].slept = 250

\* C4: the body of every answered POST embeds the configured port, the
\* method name, and as secs= the total delay its handler waited before
\* responding.
C4_BodyEmbedsTotalDelay ==
    \A i \in Conns :
        (WellFormed(i) /\ conn[i].state = "answered") =>
            /\ DecimalValue(conn[i].body[1][2]) = PORT
            /\ conn[i].body[1][4] = NameOf(i)
            /\ SecsTextMs(conn[i].body[1][6]) = conn[i].slept

\* Lines of stdout that report raw body b.
LinesFor(b) ==
    Cardinality({k \in DOMAIN stdout :
                    stdout[k][1] = "Received POST data:" /\ stdout[k][2] = b})

\* The bodies of the POSTs the server has read or will read.
PostBodies == {arrived[i].body : i \in {j \in Conns : IsPost(j) /\ arrived[j].clen = "ok"}}

\* C5: a POST whose body is not JSON, or whose JSON has no "method" field,
\* aborts at line 27 before any effect: its handler never gets past the
\* parse, nothing is written to the connection (no status line, header or
\* body, so no error response either) and nothing is slept.
C5_MalformedAborts ==
    \A i \in Conns :
        (IsPost(i) /\ arrived[i].clen = "ok" /\ arrived[i].body.json # "object") =>
            /\ ~Wrote(i)
            /\ conn[i].slept = 0
            /\ conn[i].state # "answered"
            /\ \A k \in DOMAIN sent : sent[k] # i
            /\ (conn[i].state = "handling") => (i = accepted /\ pc \in {"read", "loads"})

\* Reached: a POST whose object lacks "method" has been aborted.
C5_Witness ==
    \E i \in Conns :
        /\ IsPost(i)
        /\ arrived[i].body.json = "no_method"
        /\ conn[i].state = "aborted"

\* C6 as stated: every POST, whatever its body, has produced exactly one
\* "Received POST data" line by the time its handling has ended.
C6_OneLinePerPost ==
    \A b \in PostBodies :
        pc = "idle" =>
            LinesFor(b) = Cardinality({i \in Conns :
                              /\ IsPost(i)
                              /\ arrived[i].clen = "ok"
                              /\ arrived[i].body = b
                              /\ Finished(i)})

\* C6, amended: the POSTs that are answered produce exactly one line each,
\* carrying the raw body and printed between the headers and the body; a POST
\* that aborts produces none.
C6_OneLinePerAnsweredPost ==
    \A b \in PostBodies :
        LinesFor(b) = Cardinality({i \in Conns :
                          /\ IsPost(i)
                          /\ arrived[i].body = b
                          /\ \/ conn[i].state = "answered"
                             \/ i = accepted /\ pc = "write"})

\* Reached: one POST answered and one aborted, with a single line printed.
C6_Witness ==
    /\ pc = "idle"
    /\ \E i, j \in Conns :
          /\ WellFormed(i) /\ conn[i].state = "answered"
          /\ IsPost(j) /\ conn[j].state = "aborted"
          /\ LinesFor(arrived[i].body) = 1
          /\ LinesFor(arrived[j].body) = 0

\* Two handled requests that are the same request have the same outcome:
\* status, headers, body, sleep, answered or aborted.
SameRequestSameOutcome ==
    \A i, j \in Conns :
        (arrived[i] = arrived[j] /\ Finished(i) /\ Finished(j)) => conn[i] = conn[j]

\* C7: the outcome of a POST depends only on its body and the configured
\* port, whatever was handled before it, and no request changes the port.
C7_Stateless ==
    /\ []SameRequestSameOutcome
    /\ [][PORT' = PORT]_vars

\* Reached: the same POST answered twice, the second time after another
\* request had been handled in between.
C7_Witness ==
    \E i, j \in Conns :
        /\ i + 1 < j
        /\ WellFormed(i)
        /\ arrived[i] = arrived[j]
        /\ conn[i].state = "answered"
        /\ conn[j].state = "answered"

\* What the reference derivation makes a handler wait in all.
RefTotalMs(name) == RefDelayMs(name) + RefExtraMs(name)

\* Nothing reaches the connection before the whole delay has been slept.
RespondsAfterFullDelay ==
    \A i \in Conns :
        (WellFormed(i) /\ Wrote(i)) => conn[i].slept = RefTotalMs(NameOf(i))

\* A sleep ends only by running its full length into the next line.
SleepRunsOut ==
    /\ (pc = "sleep" /\ pc' # "sleep") =>
          /\ pc' = "slow"
          /\ conn'[accepted].slept = conn[accepted].slept + secs.ms
    /\ (pc = "slow" /\ pc' # "slow") =>
          /\ pc' = "respond"
          /\ conn'[accepted].slept = conn[accepted].slept + RefExtraMs(m.text)
    /\ \A i \in Conns : conn'[i].slept >= conn[i].slept

C9_OneAtATime ==
    /\ Cardinality({i \in Conns : conn[i].state = "handling"}) <= 1
    /\ \A i \in Conns : i > accepted => (conn[i].state = "queued" /\ ~Wrote(i))
    /\ \A i, j \in Conns :
          (i < j /\ (conn[j].state # "queued" \/ Wrote(j))) => Finished(i)
    /\ \A k \in 1..(Len(sent) - 1) : sent[k] < sent[k + 1]

\* Reached: a second request waits in the queue while the first handler is
\* in its 1.5 s sleep, after which both are answered in order.
C9_Witness ==
    /\ sent = <<1, 2>>
    /\ conn[1].slept = 1500
    /\ conn[2].state = "answered"
    /\ Len(arrived) > 2
    /\ conn[3].state = "queued"

\* C10: an aborted POST ends only its own request: serve_forever goes on,
\* the next queued connection can be accepted, and a request handled after
\* an abort gets the answer the derivation gives it.
C10_AbortIsLocal ==
    /\ serving
    /\ (pc = "idle" /\ accepted < Len(arrived)) => ENABLED Accept
    /\ \A i, j \in Conns :
          (i < j /\ conn[i].state = "aborted" /\ conn[j].state = "answered") =>
              IF WellFormed(j)
              THEN /\ conn[j].status = <<RefStatus(NameOf(j))>>
                   /\ conn[j].headers = << <<"Content-type", "text/html">> >>
                   /\ conn[j].slept = RefTotalMs(NameOf(j))
                   /\ DecimalValue(conn[j].body[1][2]) = PORT
                   /\ conn[j].body[1][4] = NameOf(j)
                   /\ SecsTextMs(conn[j].body[1][6]) = RefDelayMs(NameOf(j))
              ELSE /\ arrived[j].verb = "GET"
                   /\ conn[j].status = <<200>>

\* Reached: a POST without "method" was aborted and the next request,
\* eth_404, was answered 404.
C10_Witness ==
    \E i \in Conns :
        /\ i + 1 \in Conns
        /\ arrived[i].body.json = "no_method"
        /\ conn[i].state = "aborted"
        /\ WellFormed(i + 1)
        /\ conn[i + 1].state = "answered"
        /\ conn[i + 1].status = <<404>>

====
